---- MODULE Spec2Model ----
(***************************************************************************)
(* LibCurlHttpContentFetcher (AVSCommon/Utils/src/LibcurlUtils):           *)
(* the single-use fetch object, its background driver thread in the two    *)
(* fetch modes, the header and body callbacks and the destructor, as a     *)
(* state machine over the caller threads, the background thread and the    *)
(* destroying thread.                                                      *)
(***************************************************************************)
EXTENDS Integers, Sequences, FiniteSets, TLC

\* ------------------------------------------------------------------ bounds
\* Number of threads that call getContent on the one instance.
NumCallers == 2
\* Length of the response body the transport has to deliver.
MaxBody == 3

Callers == 1..NumCallers
\* The body bytes are pairwise different, so that a duplicated, missing or
\* reordered byte changes the sequence.
Body == [i \in 1..MaxBody |-> i]

\* ------------------------------------------------------- program constants
REDIRECTION_START_CODE == 300
REDIRECTION_END_CODE == 308

\* FetchOptions, plus a value outside the enumeration (the default: branch).
FetchOptions == {"CONTENT_TYPE", "ENTIRE_BODY", "UNKNOWN_OPTION"}

\* AttachmentWriter::WriteStatus, plus a value outside the enumeration.
WriteStatuses ==
    {"OK", "OK_BUFFER_FULL", "TIMEDOUT", "CLOSED",
     "ERROR_BYTES_LESS_THAN_WORD_SIZE", "ERROR_INTERNAL", "UNRECOGNIZED"}

\* The configuration steps of getContent that can fail, in code order.
CommonConfigSteps ==
    {"setURL", "FOLLOWLOCATION", "AUTOREFERER", "COOKIEFILE",
     "setConnectionTimeout", "USERAGENT"}
ContentTypeConfigSteps == {"WRITEFUNCTION"}
EntireBodyConfigSteps == {"createWriter", "setWriteCallback", "setHeaderCallback"}

\* The null char* of the CONTENT_TYPE task's local contentType.
NullPtr == <<"nullptr">>

\* ------------------------------------------------------------ header text
\* A header line is a sequence of one-character strings.
Upper == <<"H", "T", "P", "C", "O", "N", "E", "Y", "L", "X", "Q">>
Lower == <<"h", "t", "p", "c", "o", "n", "e", "y", "l", "x", "q">>
Digits == <<"0", "1", "2", "3", "4", "5", "6", "7", "8", "9">>

\* ::tolower on one character.
ToLowerChar(c) ==
    IF \E i \in 1..Len(Upper) : Upper[i] = c
    THEN Lower[CHOOSE i \in 1..Len(Upper) : Upper[i] = c]
    ELSE c

\* std::transform(line.begin(), line.end(), line.begin(), ::tolower)
ToLower(line) == [i \in 1..Len(line) |-> ToLowerChar(line[i])]

\* line.find(prefix) == 0
StartsWith(line, prefix) ==
    /\ Len(line) >= Len(prefix)
    /\ SubSeq(line, 1, Len(prefix)) = prefix

IsSpace(c) == c \in {" ", "\r", "\n", "\t"}
IsDigit(c) == \E i \in 1..10 : Digits[i] = c
DigitValue(c) == (CHOOSE i \in 1..10 : Digits[i] = c) - 1

\* Position of the first character at or after p that is not whitespace
\* (Len + 1 when there is none): the whitespace skip of operator>>.
RECURSIVE SkipSpace(_, _)
SkipSpace(line, p) ==
    IF p > Len(line) \/ ~IsSpace(line[p]) THEN p ELSE SkipSpace(line, p + 1)

\* Position just after the word starting at p.
RECURSIVE WordEnd(_, _)
WordEnd(line, p) ==
    IF p > Len(line) \/ IsSpace(line[p]) THEN p ELSE WordEnd(line, p + 1)

\* iss >> std::string : the word read from position p on and the position
\* the stream is left at.
ReadWord(line, p) ==
    LET b == SkipSpace(line, p)
        e == WordEnd(line, b)
    IN  [word |-> SubSeq(line, b, e - 1), next |-> e]

\* iss >> long : the digits read from position p on; 0 when none is there.
RECURSIVE ReadDigits(_, _, _)
ReadDigits(line, p, acc) ==
    IF p > Len(line) \/ ~IsDigit(line[p]) THEN acc
    ELSE ReadDigits(line, p + 1, acc * 10 + DigitValue(line[p]))

ReadLong(line, p) == ReadDigits(line, SkipSpace(line, p), 0)

\* contentType.find(";") and contentType.erase(separator)
RECURSIVE FindChar(_, _, _)
FindChar(s, c, p) ==
    IF p > Len(s) THEN 0 ELSE IF s[p] = c THEN p ELSE FindChar(s, c, p + 1)

EraseFromSeparator(s) ==
    LET separator == FindChar(s, ";", 1)
    IN  IF separator # 0 THEN SubSeq(s, 1, separator - 1) ELSE s

HttpPrefix == <<"h", "t", "t", "p">>
ContentTypePrefix ==
    <<"c", "o", "n", "t", "e", "n", "t", "-", "t", "y", "p", "e">>

\* headerCallback on one line: the new (m_lastStatusCode, m_lastContentType).
HeaderCallbackResult(data, lastStatusCode, lastContentType) ==
    LET line == ToLower(data)
    IN  IF StartsWith(line, HttpPrefix)
        THEN [statusCode  |-> ReadLong(line, ReadWord(line, 1).next),
              contentType |-> lastContentType]
        ELSE IF StartsWith(line, ContentTypePrefix)
        THEN [statusCode  |-> lastStatusCode,
              contentType |->
                  EraseFromSeparator(
                      ReadWord(line, ReadWord(line, 1).next).word)]
        ELSE [statusCode |-> lastStatusCode, contentType |-> lastContentType]

\* ------------------------------------------------------- response scripts
\* The header lines the transport receives, in order; a redirect response is
\* followed by the response of the redirect target.
StatusLine200 == <<"H", "T", "T", "P", "/", "1", " ", "2", "0", "0", " ", "O", "K", "\r", "\n">>
StatusLine301 == <<"H", "T", "T", "P", "/", "1", " ", "3", "0", "1", "\r", "\n">>
ContentTypeTP ==
    <<"C", "o", "n", "t", "e", "n", "t", "-", "T", "y", "p", "e", ":", " ",
      "T", "/", "P", ";", " ", "q", "=", "1", "\r", "\n">>
ContentTypeX ==
    <<"c", "o", "n", "t", "e", "n", "t", "-", "t", "y", "p", "e", ":", " ",
      "x", "/", "y", "\r", "\n">>

\* A content-type header with no whitespace after the colon.
ContentTypeNoSpace ==
    <<"C", "o", "n", "t", "e", "n", "t", "-", "T", "y", "p", "e", ":",
      "T", "/", "P", "\r", "\n">>

ResponseScripts ==
    << <<StatusLine200, ContentTypeTP>>,
       <<StatusLine301, ContentTypeX, StatusLine200>>,
       <<StatusLine200, ContentTypeNoSpace>> >>

\* ------------------------------------------------------------------ state
VARIABLES
    m_hasObjectBeenUsed,   \* the atomic_flag of the instance
    callPc,                \* per caller: "idle", "config", "returned"
    callResult,            \* per caller: "none", "nullptr", "HTTPContent"
    fetchOption,           \* argument of the call that passed the flag
    writerArg,             \* its writer argument: "null" or "caller"
    m_streamWriter,        \* "null", "caller" or "local"
    writerWasCreatedLocally,
    threadsSpawned,        \* number of std::thread objects started
    configFailure,         \* the step of getContent that failed, or "none"
    bgPc,                  \* position of the background thread
    numTransfersLeft,
    finalResponseCode,     \* local of the CONTENT_TYPE task
    contentType,           \* local of the CONTENT_TYPE task (char*)
    m_lastStatusCode,
    m_lastContentType,
    taskFailure,           \* what failed in the task, or "none"
    m_done,
    m_isShutdown,
    statusCodePromise,     \* [writes, value]
    contentTypePromise,    \* [writes, value]
    dtorPc,                \* position of the destructor
    script,                \* which response the server sends
    hdrIdx,                \* header lines received so far
    bodyOff,               \* body bytes handed to the body callback so far
    aborted,               \* the transfer ended (short count or failure)
    curlResponseCode,      \* CURLINFO_RESPONSE_CODE
    curlContentType,       \* CURLINFO_CONTENT_TYPE
    targetNumBytes,        \* bodyCallback: size * nmemb
    totalBytesWritten,     \* bodyCallback local
    data,                  \* bodyCallback: offset of data in the chunk
    writeStatus,           \* bodyCallback local: status of the latest write
    bodyReturn,            \* what bodyCallback returned; -1 until it returns
    sinkData,              \* bytes the sink has accepted
    sinkClosed,            \* close() was called on the writer
    timedOutSeen,          \* some write reported TIMEDOUT
    partialSeen,           \* some write took fewer bytes than offered
    closedReported,        \* some write reported CLOSED
    sinkFault,             \* some write reported other than OK / TIMEDOUT
    writesAfterDone,       \* writes started while m_done was true
    doneSetBy,             \* who set m_done first: "none", "task", "dtor"
    shutdownWhileRunning   \* m_isShutdown was set before the task ended

callVars == <<m_hasObjectBeenUsed, callPc, callResult, fetchOption, writerArg,
              m_streamWriter, writerWasCreatedLocally, threadsSpawned,
              configFailure>>
taskVars == <<numTransfersLeft, finalResponseCode, contentType,
              m_lastStatusCode, m_lastContentType, taskFailure>>
promiseVars == <<statusCodePromise, contentTypePromise>>
curlVars == <<script, hdrIdx, bodyOff, aborted, curlResponseCode,
              curlContentType>>
bodyVars == <<targetNumBytes, totalBytesWritten, data, writeStatus,
              bodyReturn>>
sinkVars == <<sinkData, sinkClosed, timedOutSeen, partialSeen,
              closedReported, sinkFault, writesAfterDone>>
flagVars == <<m_done, m_isShutdown, doneSetBy, shutdownWhileRunning>>

vars == <<callVars, bgPc, taskVars, promiseVars, dtorPc, curlVars, bodyVars,
          sinkVars, flagVars>>

Headers == ResponseScripts[script]

\* The constructor; the server's response is fixed from the start.
Init ==
    /\ m_hasObjectBeenUsed = FALSE
    /\ callPc = [c \in Callers |-> "idle"]
    /\ callResult = [c \in Callers |-> "none"]
    /\ fetchOption = "none"
    /\ writerArg = "null"
    /\ m_streamWriter = "null"
    /\ writerWasCreatedLocally = FALSE
    /\ threadsSpawned = 0
    /\ configFailure = "none"
    /\ bgPc = "none"
    /\ numTransfersLeft = 0
    /\ finalResponseCode = 0
    /\ contentType = NullPtr
    /\ m_lastStatusCode = 0
    /\ m_lastContentType = <<>>
    /\ taskFailure = "none"
    /\ m_done = FALSE
    /\ m_isShutdown = FALSE
    /\ statusCodePromise = [writes |-> 0, value |-> 0]
    /\ contentTypePromise = [writes |-> 0, value |-> <<>>]
    /\ dtorPc = "alive"
    /\ script \in 1..Len(ResponseScripts)
    /\ hdrIdx = 0
    /\ bodyOff = 0
    /\ aborted = FALSE
    /\ curlResponseCode = 0
    /\ curlContentType = NullPtr
    /\ targetNumBytes = 0
    /\ totalBytesWritten = 0
    /\ data = 0
    /\ writeStatus = "OK"
    /\ bodyReturn = -1
    /\ sinkData = <<>>
    /\ sinkClosed = FALSE
    /\ timedOutSeen = FALSE
    /\ partialSeen = FALSE
    /\ closedReported = FALSE
    /\ sinkFault = FALSE
    /\ writesAfterDone = 0
    /\ doneSetBy = "none"
    /\ shutdownWhileRunning = FALSE

\* ------------------------------------------------------------- getContent
\* A test that reads the flag and leaves it as it was.
TestWithoutSet(flag) == [old |-> flag, new |-> flag]

\* std::atomic_flag::test_and_set(): the value read and the value left.
TestAndSet(flag) == [old |-> flag, new |-> TRUE]

\* Lines 146-149: m_hasObjectBeenUsed.test_and_set() and the early return.
\* The callers are numbered in the order in which they reach the flag.
GetContentTestAndSet(c, option, writer) ==
    /\ dtorPc = "alive"
    /\ callPc[c] = "idle"
    /\ \A d \in Callers : d < c => callPc[d] # "idle"
    /\ m_hasObjectBeenUsed' = TestAndSet(m_hasObjectBeenUsed).new
    /\ IF TestAndSet(m_hasObjectBeenUsed).old
       THEN /\ callPc' = [callPc EXCEPT ![c] = "returned"]
            /\ callResult' = [callResult EXCEPT ![c] = "nullptr"]
            /\ UNCHANGED <<fetchOption, writerArg>>
       ELSE /\ callPc' = [callPc EXCEPT ![c] = "config"]
            /\ fetchOption' = option
            /\ writerArg' = writer
            /\ UNCHANGED callResult
    /\ UNCHANGED <<m_streamWriter, writerWasCreatedLocally, threadsSpawned,
                   configFailure, bgPc, taskVars, promiseVars, dtorPc, curlVars, bodyVars,
                   sinkVars, flagVars>>

\* The configuration steps that getContent runs for an option.
ConfigStepsOf(option) ==
    CommonConfigSteps \cup
        (IF option = "CONTENT_TYPE" THEN ContentTypeConfigSteps
         ELSE IF option = "ENTIRE_BODY" THEN EntireBodyConfigSteps
         ELSE {})

\* m_streamWriter after lines 273-280, when the switch reaches them.
WriterAfterSetup(writer, failed) ==
    IF writer = "caller" THEN "caller"
    ELSE IF failed = "createWriter" THEN "null" ELSE "local"

\* A start that goes on although installing the header callback failed.
SpawnsDespiteCallbackFailure(option, failed) ==
    failed \in {"none", "setHeaderCallback"} /\ option # "UNKNOWN_OPTION"

\* Whether getContent reaches m_thread = std::thread(...): every step
\* succeeded and the option is one of the two cases of the switch.
Spawns(option, failed) == failed = "none" /\ option # "UNKNOWN_OPTION"

\* Lines 150-351: configuration, the switch on fetchOption, the start of the
\* background thread and the returned HTTPContent. failed names the step
\* that fails, "none" when every step succeeds.
GetContentConfigure(c, failed) ==
    /\ callPc[c] = "config"
    /\ failed \in ConfigStepsOf(fetchOption) \cup {"none"}
    /\ ~(failed = "createWriter" /\ writerArg = "caller")
    /\ callPc' = [callPc EXCEPT ![c] = "returned"]
    /\ configFailure' =
           IF failed = "none" /\ fetchOption = "UNKNOWN_OPTION"
           THEN "unknownOption" ELSE failed
    /\ LET reachesWriter ==
               /\ fetchOption = "ENTIRE_BODY"
               /\ failed \notin CommonConfigSteps
           spawns == Spawns(fetchOption, failed)
       IN  /\ m_streamWriter' =
                 IF reachesWriter THEN WriterAfterSetup(writerArg, failed)
                 ELSE m_streamWriter
           /\ writerWasCreatedLocally' =
                 IF reachesWriter THEN writerArg = "null"
                 ELSE writerWasCreatedLocally
           /\ IF spawns
              THEN /\ threadsSpawned' = threadsSpawned + 1
                   /\ bgPc' = "create"
                   /\ callResult' = [callResult EXCEPT ![c] = "HTTPContent"]
              ELSE /\ callResult' = [callResult EXCEPT ![c] = "nullptr"]
                   /\ UNCHANGED <<threadsSpawned, bgPc>>
    /\ UNCHANGED <<m_hasObjectBeenUsed, fetchOption, writerArg, taskVars,
                   promiseVars, dtorPc, curlVars, bodyVars, sinkVars,
                   flagVars>>

\* ------------------------------------------------------------- destructor
TaskRunning == bgPc \notin {"none", "terminated"}

\* Line 355: m_thread.joinable(). The destructor runs when no getContent
\* call is in progress on the object.
DtorStart ==
    /\ dtorPc = "alive"
    /\ \A c \in Callers : callPc[c] # "config"
    /\ dtorPc' = IF bgPc # "none" THEN "setDone" ELSE "returned"
    /\ UNCHANGED <<callVars, bgPc, taskVars, promiseVars, curlVars, bodyVars,
                   sinkVars, flagVars>>

\* Line 356: m_done = true.
DtorSetDone ==
    /\ dtorPc = "setDone"
    /\ m_done' = TRUE
    /\ doneSetBy' = IF doneSetBy = "none" THEN "dtor" ELSE doneSetBy
    /\ dtorPc' = "setShutdown"
    /\ UNCHANGED <<callVars, bgPc, taskVars, promiseVars, curlVars, bodyVars,
                   sinkVars, m_isShutdown, shutdownWhileRunning>>

\* Line 357: m_isShutdown = true.
DtorSetShutdown ==
    /\ dtorPc = "setShutdown"
    /\ m_isShutdown' = TRUE
    /\ shutdownWhileRunning' = TaskRunning
    /\ dtorPc' = "join"
    /\ UNCHANGED <<callVars, bgPc, taskVars, promiseVars, curlVars, bodyVars,
                   sinkVars, m_done, doneSetBy>>

\* A join that does not wait for the thread.
DtorJoinNoWait ==
    /\ dtorPc = "join"
    /\ dtorPc' = "returned"
    /\ UNCHANGED <<callVars, bgPc, taskVars, promiseVars, curlVars, bodyVars,
                   sinkVars, flagVars>>

\* Line 358: m_thread.join() returns once the thread has ended.
DtorJoin ==
    /\ dtorPc = "join"
    /\ bgPc = "terminated"
    /\ dtorPc' = "returned"
    /\ UNCHANGED <<callVars, bgPc, taskVars, promiseVars, curlVars, bodyVars,
                   sinkVars, flagVars>>

\* ---------------------------------------------------------------- promises
\* std::promise::set_value: the first call stores the value; writes counts
\* the calls.
SetValue(promise, v) ==
    [writes |-> promise.writes + 1,
     value  |-> IF promise.writes = 0 THEN v ELSE promise.value]

\* ------------------------------------------------------- background thread
\* After the promises are set on the failure of
\* CurlMultiHandleWrapper::create(), a task that goes on into the loop.
AfterCreateFailureFallThrough == "loop"

\* Lines 214 and 301: return.
AfterCreateFailure == "terminated"

\* Lines 208-220 and 295-305: CurlMultiHandleWrapper::create(), addHandle and
\* the locals of the loop.
BgCreate(ok) ==
    /\ bgPc = "create"
    /\ IF ok
       THEN /\ numTransfersLeft' = 1
            /\ finalResponseCode' = 0
            /\ contentType' = NullPtr
            /\ bgPc' = "loop"
            /\ UNCHANGED taskFailure
       ELSE /\ bgPc' = "errStatus"
            /\ taskFailure' = "create"
            /\ UNCHANGED <<numTransfersLeft, finalResponseCode, contentType>>
    /\ UNCHANGED <<callVars, m_lastStatusCode, m_lastContentType, promiseVars,
                   dtorPc, curlVars, bodyVars, sinkVars, flagVars>>

\* Lines 212 and 299: m_statusCodePromise.set_value(0).
BgErrStatus ==
    /\ bgPc = "errStatus"
    /\ statusCodePromise' = SetValue(statusCodePromise, 0)
    /\ bgPc' = "errContentType"
    /\ UNCHANGED <<callVars, taskVars, contentTypePromise, dtorPc, curlVars,
                   bodyVars, sinkVars, flagVars>>

\* Lines 213-214 and 300-301: m_contentTypePromise.set_value("") and return.
BgErrContentType ==
    /\ bgPc = "errContentType"
    /\ contentTypePromise' = SetValue(contentTypePromise, <<>>)
    /\ bgPc' = AfterCreateFailure
    /\ UNCHANGED <<callVars, taskVars, statusCodePromise, dtorPc, curlVars,
                   bodyVars, sinkVars, flagVars>>

\* Lines 222 and 306: while (numTransfersLeft && !m_isShutdown).
BgLoopTest ==
    /\ bgPc = "loop"
    /\ bgPc' = IF numTransfersLeft # 0 /\ ~m_isShutdown
               THEN "perform" ELSE "setStatus"
    /\ UNCHANGED <<callVars, taskVars, promiseVars, dtorPc, curlVars,
                   bodyVars, sinkVars, flagVars>>

\* ------------------------------------------------- the transport (libcurl)
\* Position of the last character at or before p that is not whitespace
\* (0 when there is none).
RECURSIVE TrimEnd(_, _)
TrimEnd(line, p) ==
    IF p = 0 \/ ~IsSpace(line[p]) THEN p ELSE TrimEnd(line, p - 1)

\* The value of a header line: what follows the first colon, without the
\* whitespace around it.
FieldValue(line) ==
    LET colon == FindChar(line, ":", 1)
        b     == SkipSpace(line, colon + 1)
    IN  IF colon = 0 THEN <<>> ELSE SubSeq(line, b, TrimEnd(line, Len(line)))

\* What libcurl records of a header line it receives: the response code of a
\* status line, the value of a content-type header up to the line end.
CurlInfoAfter(line, code, ctype) ==
    LET lower == ToLower(line)
    IN  IF StartsWith(lower, HttpPrefix)
        THEN [code |-> ReadLong(line, ReadWord(line, 1).next), ctype |-> ctype]
        ELSE IF StartsWith(lower, ContentTypePrefix \o <<":">>)
        THEN [code |-> code, ctype |-> FieldValue(line)]
        ELSE [code |-> code, ctype |-> ctype]

TransferComplete == hdrIdx = Len(Headers) /\ bodyOff = Len(Body)

\* Inside perform(): libcurl receives the next header line and, in
\* ENTIRE_BODY mode, hands it to headerCallback (lines 50-81).
CurlReceiveHeader ==
    /\ bgPc = "perform"
    /\ ~aborted
    /\ hdrIdx < Len(Headers)
    /\ LET line == Headers[hdrIdx + 1]
           info == CurlInfoAfter(line, curlResponseCode, curlContentType)
           res  == HeaderCallbackResult(line, m_lastStatusCode,
                                        m_lastContentType)
       IN  /\ curlResponseCode' = info.code
           /\ curlContentType' = info.ctype
           /\ IF fetchOption = "ENTIRE_BODY"
              THEN /\ m_lastStatusCode' = res.statusCode
                   /\ m_lastContentType' = res.contentType
              ELSE UNCHANGED <<m_lastStatusCode, m_lastContentType>>
    /\ hdrIdx' = hdrIdx + 1
    /\ UNCHANGED <<callVars, bgPc, numTransfersLeft, finalResponseCode,
                   contentType, taskFailure, promiseVars, dtorPc, script, bodyOff, aborted,
                   bodyVars, sinkVars, flagVars>>

\* A discarding callback that passes the bytes on to the sink.
NoopCallbackWriting(sink, chunk) ==
    [count |-> Len(chunk), sink |-> sink \o chunk]

\* Lines 131-133: noopCallback returns 0 and touches nothing: the count it
\* returns and the sink it leaves.
NoopCallback(sink, chunk) == [count |-> 0, sink |-> sink]

\* Inside perform(): libcurl hands the next n body bytes to the write
\* callback. noopCallback (lines 131-133) returns 0, a short count that ends
\* the transfer; bodyCallback (line 83) is entered with size * nmemb = n.
CurlDeliverBody(n) ==
    /\ bgPc = "perform"
    /\ ~aborted
    /\ hdrIdx = Len(Headers)
    /\ n \in 1..(Len(Body) - bodyOff)
    /\ bodyOff' = bodyOff + n
    /\ IF fetchOption = "CONTENT_TYPE"
       THEN LET res == NoopCallback(sinkData,
                                    SubSeq(Body, bodyOff + 1, bodyOff + n))
            IN  /\ aborted' = (res.count < n)
                /\ sinkData' = res.sink
                /\ UNCHANGED <<bgPc, bodyVars>>
       ELSE /\ bgPc' = "bodyEntry"
            /\ targetNumBytes' = n
            /\ totalBytesWritten' = 0
            /\ data' = 0
            /\ writeStatus' = "OK"
            /\ bodyReturn' = -1
            /\ UNCHANGED <<aborted, sinkData>>
    /\ UNCHANGED <<callVars, taskVars, promiseVars, dtorPc, script, hdrIdx,
                   curlResponseCode, curlContentType, sinkClosed,
                   timedOutSeen, partialSeen, closedReported, sinkFault,
                   writesAfterDone, flagVars>>

\* Inside perform(): the connection fails and the transfer ends early.
CurlConnectionFails ==
    /\ bgPc = "perform"
    /\ ~aborted
    /\ ~TransferComplete
    /\ aborted' = TRUE
    /\ UNCHANGED <<callVars, bgPc, taskVars, promiseVars, dtorPc, script,
                   hdrIdx, bodyOff, curlResponseCode, curlContentType,
                   bodyVars, sinkVars, flagVars>>

\* Lines 223-229 and 307-313: perform() returns; no transfer is left once
\* the transfer has ended or has been delivered whole.
BgPerformReturns(result) ==
    /\ bgPc = "perform"
    /\ result \in {"CURLM_OK", "CURLM_CALL_MULTI_PERFORM", "CURLM_ERROR"}
    /\ numTransfersLeft' = IF aborted \/ TransferComplete THEN 0 ELSE 1
    /\ bgPc' = IF result = "CURLM_CALL_MULTI_PERFORM" THEN "loop"
               ELSE IF result # "CURLM_OK" THEN "setStatus"
               ELSE IF fetchOption = "CONTENT_TYPE" THEN "getinfo"
               ELSE "wait"
    /\ taskFailure' = IF result = "CURLM_ERROR" THEN "perform" ELSE taskFailure
    /\ UNCHANGED <<callVars, finalResponseCode, contentType, m_lastStatusCode,
                   m_lastContentType, promiseVars, dtorPc, curlVars, bodyVars,
                   sinkVars, flagVars>>

\* A test that takes every known response code, redirects included, as final.
IsKnownResponseCode(code) == 0 # code

\* A task that goes on to wait() after it has seen the final response code.
AfterFinalResponseCodeWaits == "wait"

\* Line 250: the break that follows the query of the content type.
AfterFinalResponseCode == "setStatus"

\* Lines 237-238: the response code is known and is no redirect.
IsFinalResponseCode(code) ==
    /\ 0 # code
    /\ (code < REDIRECTION_START_CODE \/ code > REDIRECTION_END_CODE)

\* Lines 231-250: curl_easy_getinfo of the response code and, for a final
\* code, of the content type.
BgGetInfo(codeOk, typeOk) ==
    /\ bgPc = "getinfo"
    /\ IF ~codeOk
       THEN /\ bgPc' = "setStatus"
            /\ UNCHANGED <<finalResponseCode, contentType>>
       ELSE /\ finalResponseCode' = curlResponseCode
            /\ IF IsFinalResponseCode(curlResponseCode)
               THEN /\ contentType' =
                         IF typeOk THEN curlContentType ELSE contentType
                    /\ bgPc' = AfterFinalResponseCode
               ELSE /\ bgPc' = "wait"
                    /\ UNCHANGED contentType
    /\ taskFailure' = IF codeOk THEN taskFailure ELSE "getinfo"
    /\ UNCHANGED <<callVars, numTransfersLeft, m_lastStatusCode,
                   m_lastContentType, promiseVars, dtorPc, curlVars, bodyVars,
                   sinkVars, flagVars>>

\* Lines 252-259 and 315-322: wait(WAIT_FOR_ACTIVITY_TIMEOUT).
BgWait(ok) ==
    /\ bgPc = "wait"
    /\ bgPc' = IF ok THEN "loop" ELSE "setStatus"
    /\ taskFailure' = IF ok THEN taskFailure ELSE "wait"
    /\ UNCHANGED <<callVars, numTransfersLeft, finalResponseCode, contentType,
                   m_lastStatusCode, m_lastContentType, promiseVars, dtorPc,
                   curlVars, bodyVars, sinkVars, flagVars>>

\* ------------------------------------------------------------ bodyCallback
\* The chunk is Body[ChunkStart + 1 .. ChunkStart + targetNumBytes].
ChunkStart == bodyOff - targetNumBytes

\* What AttachmentWriter::write may answer when offered len bytes: the number
\* of bytes it took and the status.
SinkWriteOutcomes(len) ==
    {[n |-> k, status |-> "OK"] : k \in 1..len}
    \cup {[n |-> k, status |-> "OK_BUFFER_FULL"] : k \in 0..len}
    \cup {[n |-> 0, status |-> st] :
            st \in WriteStatuses \ {"OK", "OK_BUFFER_FULL"}}

\* The callback's return to libcurl: a count short of size * nmemb ends the
\* transfer.
ReturnToCurl(count) ==
    /\ bgPc' = "perform"
    /\ bodyReturn' = count
    /\ aborted' = (aborted \/ count < targetNumBytes)

\* Lines 89-96: the m_done test at entry, and the return of 0 at line 128
\* when m_streamWriter is null.
BodyEntry ==
    /\ bgPc = "bodyEntry"
    /\ IF m_done \/ m_streamWriter = "null"
       THEN ReturnToCurl(0)
       ELSE /\ bgPc' = "bodyLoop"
            /\ UNCHANGED <<aborted, bodyReturn>>
    /\ UNCHANGED <<callVars, taskVars, promiseVars, dtorPc, script, hdrIdx,
                   bodyOff, curlResponseCode, curlContentType, targetNumBytes,
                   totalBytesWritten, data, writeStatus, sinkVars, flagVars>>

\* A loop test that does not look at m_done.
LoopContinuesIgnoringDone(total, target, done) == total < target

\* Line 99: while (totalBytesWritten < targetNumBytes && !m_done).
LoopContinues(total, target, done) == total < target /\ ~done

\* Lines 99 and 128: the loop test, and the return after the loop.
BodyLoopTest ==
    /\ bgPc = "bodyLoop"
    /\ IF LoopContinues(totalBytesWritten, targetNumBytes, m_done)
       THEN /\ bgPc' = "bodyWrite"
            /\ UNCHANGED <<aborted, bodyReturn>>
       ELSE ReturnToCurl(totalBytesWritten)
    /\ UNCHANGED <<callVars, taskVars, promiseVars, dtorPc, script, hdrIdx,
                   bodyOff, curlResponseCode, curlContentType, targetNumBytes,
                   totalBytesWritten, data, writeStatus, sinkVars, flagVars>>

\* A data pointer that stays at the start of the chunk.
DataNotAdvanced(ptr, numBytesWritten) == ptr

\* Line 109: data += numBytesWritten.
DataAfterWrite(ptr, numBytesWritten) == ptr + numBytesWritten

\* A switch in which CLOSED falls in with TIMEDOUT and OK.
AfterWriteClosedRetried(status) ==
    IF status \in {"ERROR_BYTES_LESS_THAN_WORD_SIZE", "ERROR_INTERNAL"}
    THEN "returnTotal"
    ELSE IF status \in {"TIMEDOUT", "OK", "CLOSED"} THEN "continue"
    ELSE "returnZero"

\* A switch in which TIMEDOUT falls in with the statuses that return.
AfterWriteTimeoutFatal(status) ==
    IF status \in {"CLOSED", "ERROR_BYTES_LESS_THAN_WORD_SIZE",
                   "ERROR_INTERNAL", "TIMEDOUT"}
    THEN "returnTotal"
    ELSE IF status = "OK" THEN "continue"
    ELSE "returnZero"

\* A switch in which the three fatal statuses return 0.
AfterWriteErrorsReturnZero(status) ==
    IF status \in {"TIMEDOUT", "OK"} THEN "continue" ELSE "returnZero"

\* A switch in which OK_BUFFER_FULL returns the running total.
AfterWriteFullReturnsTotal(status) ==
    IF status \in {"CLOSED", "ERROR_BYTES_LESS_THAN_WORD_SIZE",
                   "ERROR_INTERNAL", "OK_BUFFER_FULL"}
    THEN "returnTotal"
    ELSE IF status \in {"TIMEDOUT", "OK"} THEN "continue"
    ELSE "returnZero"

\* A switch in which TIMEDOUT is taken for an unexpected status.
AfterWriteTimeoutReturnsZero(status) ==
    IF status \in {"CLOSED", "ERROR_BYTES_LESS_THAN_WORD_SIZE",
                   "ERROR_INTERNAL"}
    THEN "returnTotal"
    ELSE IF status = "OK" THEN "continue"
    ELSE "returnZero"

\* Lines 111-125: the switch on writeStatus.
AfterWrite(status) ==
    IF status \in {"CLOSED", "ERROR_BYTES_LESS_THAN_WORD_SIZE",
                   "ERROR_INTERNAL"}
    THEN "returnTotal"
    ELSE IF status \in {"TIMEDOUT", "OK"} THEN "continue"
    ELSE "returnZero"

\* Lines 100-125: one streamWriter->write of the bytes at data, of length
\* targetNumBytes - totalBytesWritten, and the switch on its status.
BodyWrite(out) ==
    /\ bgPc = "bodyWrite"
    /\ out \in SinkWriteOutcomes(targetNumBytes - totalBytesWritten)
    /\ sinkData' = sinkData \o SubSeq(Body, ChunkStart + data + 1,
                                      ChunkStart + data + out.n)
    /\ totalBytesWritten' = totalBytesWritten + out.n
    /\ data' = DataAfterWrite(data, out.n)
    /\ writeStatus' = out.status
    /\ timedOutSeen' = (timedOutSeen \/ out.status = "TIMEDOUT")
    /\ partialSeen' =
           (partialSeen \/ (out.status = "OK"
                              /\ out.n < targetNumBytes - totalBytesWritten))
    /\ closedReported' = (closedReported \/ out.status = "CLOSED")
    /\ sinkFault' = (sinkFault \/ out.status \notin {"OK", "TIMEDOUT"})
    /\ writesAfterDone' =
           IF m_done /\ writesAfterDone < 2 THEN writesAfterDone + 1
           ELSE writesAfterDone
    /\ CASE AfterWrite(out.status) = "returnTotal" ->
                ReturnToCurl(totalBytesWritten')
         [] AfterWrite(out.status) = "continue" ->
                bgPc' = "bodyLoop" /\ UNCHANGED <<aborted, bodyReturn>>
         [] OTHER -> ReturnToCurl(0)
    /\ UNCHANGED <<callVars, taskVars, promiseVars, dtorPc, script, hdrIdx,
                   bodyOff, curlResponseCode, curlContentType, targetNumBytes,
                   sinkClosed, flagVars>>

\* ----------------------------------------------------- the terminal steps
\* A task that closes the writer right after the status promise.
AfterSetStatusClosesFirst == "close"

\* Lines 261-262 and 325-326: the content-type promise follows the status
\* promise.
AfterSetStatus == "setContentType"

\* Lines 261 and 325: m_statusCodePromise.set_value(...).
BgSetStatus ==
    /\ bgPc = "setStatus"
    /\ statusCodePromise' =
           SetValue(statusCodePromise,
                    IF fetchOption = "CONTENT_TYPE" THEN finalResponseCode
                    ELSE m_lastStatusCode)
    /\ bgPc' = AfterSetStatus
    /\ UNCHANGED <<callVars, taskVars, contentTypePromise, dtorPc, curlVars,
                   bodyVars, sinkVars, flagVars>>

\* Lines 262-266 and 326: m_contentTypePromise.set_value(...).
BgSetContentType ==
    /\ bgPc = "setContentType"
    /\ contentTypePromise' =
           SetValue(contentTypePromise,
                    IF fetchOption = "CONTENT_TYPE"
                    THEN (IF contentType # NullPtr THEN contentType ELSE <<>>)
                    ELSE m_lastContentType)
    /\ bgPc' = IF fetchOption = "CONTENT_TYPE" THEN "removeHandle" ELSE "close"
    /\ UNCHANGED <<callVars, taskVars, statusCodePromise, dtorPc, curlVars,
                   bodyVars, sinkVars, flagVars>>

\* A task that closes the writer whoever created it.
ClosesAnyWriter(createdLocally) == TRUE

\* Line 331: if (writerWasCreatedLocally).
ClosesWriter(createdLocally) == createdLocally

\* Lines 331-333: m_streamWriter->close() on a locally created writer.
BgClose ==
    /\ bgPc = "close"
    /\ sinkClosed' = (sinkClosed \/ ClosesWriter(writerWasCreatedLocally))
    /\ bgPc' = "setDone"
    /\ UNCHANGED <<callVars, taskVars, promiseVars, dtorPc, curlVars,
                   bodyVars, sinkData, timedOutSeen, partialSeen,
                   closedReported, sinkFault, writesAfterDone, flagVars>>

\* Line 340: m_done = true.
BgSetDone ==
    /\ bgPc = "setDone"
    /\ m_done' = TRUE
    /\ doneSetBy' = IF doneSetBy = "none" THEN "task" ELSE doneSetBy
    /\ bgPc' = "removeHandle"
    /\ UNCHANGED <<callVars, taskVars, promiseVars, dtorPc, curlVars,
                   bodyVars, sinkVars, m_isShutdown, shutdownWhileRunning>>

\* Lines 269 and 343: removeHandle, and the end of the thread.
BgRemoveHandle ==
    /\ bgPc = "removeHandle"
    /\ bgPc' = "terminated"
    /\ UNCHANGED <<callVars, taskVars, promiseVars, dtorPc, curlVars,
                   bodyVars, sinkVars, flagVars>>

\* ---------------------------------------------------------- specification
Caller ==
    \/ \E c \in Callers, option \in FetchOptions, writer \in {"null", "caller"} :
           GetContentTestAndSet(c, option, writer)
    \/ \E c \in Callers, failed \in ContentTypeConfigSteps \cup
                                   EntireBodyConfigSteps \cup
                                   CommonConfigSteps \cup {"none"} :
           GetContentConfigure(c, failed)

Destructor ==
    \/ DtorStart
    \/ DtorSetDone
    \/ DtorSetShutdown
    \/ DtorJoin

Transport ==
    \/ CurlReceiveHeader
    \/ \E n \in 1..MaxBody : CurlDeliverBody(n)
    \/ CurlConnectionFails

BodyCallback ==
    \/ BodyEntry
    \/ BodyLoopTest
    \/ \E out \in SinkWriteOutcomes(MaxBody) : BodyWrite(out)

Task ==
    \/ \E ok \in BOOLEAN : BgCreate(ok)
    \/ BgErrStatus
    \/ BgErrContentType
    \/ BgLoopTest
    \/ \E result \in {"CURLM_OK", "CURLM_CALL_MULTI_PERFORM", "CURLM_ERROR"} :
           BgPerformReturns(result)
    \/ \E codeOk \in BOOLEAN, typeOk \in BOOLEAN : BgGetInfo(codeOk, typeOk)
    \/ \E ok \in BOOLEAN : BgWait(ok)
    \/ BgSetStatus
    \/ BgSetContentType
    \/ BgClose
    \/ BgSetDone
    \/ BgRemoveHandle

Background == Task \/ Transport \/ BodyCallback

Next == Caller \/ Destructor \/ Background

Spec == Init /\ [][Next]_vars

\* The background thread is a running thread: as long as it has a step to
\* take it takes one (each perform, wait and bounded write returns). Nothing
\* is assumed of the callers or of the destructor, nor of which outcome a
\* step has.
FairSpec == Spec /\ WF_vars(Background)

\* ------------------------------------------------------------- properties
Fulfilled ==
    /\ statusCodePromise.writes >= 1
    /\ contentTypePromise.writes >= 1

PassedFlag(c) == callPc[c] = "config" \/ callResult[c] = "HTTPContent"

\* C1: of all getContent calls on one instance, in any interleaving, at most
\* one gets past the single-use flag; every call after the first to reach
\* the flag returns nullptr without configuring anything, and at most one
\* background thread is ever started.
C1_SingleUse ==
    /\ threadsSpawned <= 1
    /\ Cardinality({c \in Callers : PassedFlag(c)}) <= 1
    /\ \A c \in Callers :
           c > 1 => /\ callPc[c] # "config"
                    /\ callResult[c] # "HTTPContent"
                    /\ callPc[c] = "returned" => callResult[c] = "nullptr"

C1_Witness ==
    /\ threadsSpawned = 1
    /\ \E c, d \in Callers :
           /\ callResult[c] = "HTTPContent"
           /\ callPc[d] = "returned"
           /\ callResult[d] = "nullptr"

\* C2: neither promise is ever set twice, and when the background thread has
\* ended each has been set exactly once, whichever way the thread ended.
C2_PromisesSetOnce ==
    /\ statusCodePromise.writes <= 1
    /\ contentTypePromise.writes <= 1
    /\ bgPc = "terminated" =>
           /\ statusCodePromise.writes = 1
           /\ contentTypePromise.writes = 1

\* The thread ended with no transfer left while the destructor had already
\* signalled shutdown: shutdown raced with natural completion.
C2_Witness ==
    /\ bgPc = "terminated"
    /\ shutdownWhileRunning
    /\ numTransfersLeft = 0
    /\ taskFailure = "none"
    /\ statusCodePromise.writes = 1
    /\ contentTypePromise.writes = 1

\* C3: in ENTIRE_BODY mode with a locally created writer, when the
\* background thread has ended after a failure (create, perform or wait),
\* both promises are set and the local writer has been closed.
C3_FailureClosesLocalSink ==
    (/\ bgPc = "terminated"
     /\ fetchOption = "ENTIRE_BODY"
     /\ writerWasCreatedLocally
     /\ taskFailure \in {"create", "perform", "wait"})
        => (Fulfilled /\ sinkClosed)

\* C4: when shutdown was signalled while the background thread was running
\* and the thread has ended, both promises are set and, in ENTIRE_BODY mode,
\* a locally created writer has been closed.
C4_ShutdownFulfilsAndCloses ==
    (bgPc = "terminated" /\ shutdownWhileRunning)
        => /\ Fulfilled
           /\ (fetchOption = "ENTIRE_BODY" /\ writerWasCreatedLocally)
                  => sinkClosed

\* C5: once the destructor has returned the background thread is not
\* running: it was never started or it has ended.
C5_DestructorJoins == dtorPc = "returned" => ~TaskRunning

C5_Witness ==
    /\ dtorPc = "returned"
    /\ bgPc = "terminated"
    /\ shutdownWhileRunning

\* C6: in ENTIRE_BODY mode, once a write has reported CLOSED, both promises
\* are eventually set, whether or not the destructor ever runs.
C6_ClosedLeadsToFulfilled == closedReported ~> Fulfilled

C6_Witness ==
    /\ closedReported
    /\ Fulfilled
    /\ bgPc = "terminated"
    /\ dtorPc = "alive"
    /\ ~m_isShutdown

\* C7: in ENTIRE_BODY mode with a locally created writer, when the writer is
\* closed after a transfer with no shutdown and no write status other than
\* OK and TIMEDOUT, the sink holds exactly the bytes handed to bodyCallback,
\* in order.
C7_SinkHoldsDeliveredBytes ==
    (/\ fetchOption = "ENTIRE_BODY"
     /\ writerWasCreatedLocally
     /\ sinkClosed
     /\ ~sinkFault
     /\ doneSetBy # "dtor")
        => sinkData = SubSeq(Body, 1, bodyOff)

\* The whole body arrived, through partial and timed-out writes.
C7_Witness ==
    /\ fetchOption = "ENTIRE_BODY"
    /\ writerWasCreatedLocally
    /\ sinkClosed
    /\ ~sinkFault
    /\ doneSetBy # "dtor"
    /\ bodyOff = Len(Body)
    /\ ~aborted
    /\ partialSeen
    /\ timedOutSeen
    /\ sinkData = Body

\* C8 as stated: no write to a caller-supplied writer is started while
\* m_done is true.
C8_NoWriteAfterDone == m_streamWriter = "caller" => writesAfterDone = 0

\* C8, amended: no write to a caller-supplied writer is started after the
\* background thread has set m_done, and at most one is started after the
\* destructor has set it.
C8_AtMostOneWriteAfterDone ==
    m_streamWriter = "caller" =>
        /\ writesAfterDone <= 1
        /\ writesAfterDone = 1 => doneSetBy = "dtor"

C8_Witness ==
    /\ m_streamWriter = "caller"
    /\ writesAfterDone = 1
    /\ doneSetBy = "dtor"
    /\ bgPc = "terminated"

\* C9: a writer that was not created locally is never closed.
C9_CallerSinkNeverClosed == ~writerWasCreatedLocally => ~sinkClosed

C9_Witness ==
    /\ m_streamWriter = "caller"
    /\ bgPc = "terminated"
    /\ taskFailure = "none"
    /\ ~sinkClosed

\* C10: when a configuration step of getContent failed, or the option is
\* unknown, no call has returned an HTTPContent, no thread was started and
\* neither promise is set.
C10_ConfigFailureStartsNothing ==
    configFailure # "none" =>
        /\ \A c \in Callers : callResult[c] # "HTTPContent"
        /\ threadsSpawned = 0
        /\ bgPc = "none"
        /\ statusCodePromise.writes = 0
        /\ contentTypePromise.writes = 0

C10_Witness ==
    /\ configFailure = "setHeaderCallback"
    /\ \A c \in Callers : callPc[c] = "returned" /\ callResult[c] = "nullptr"
    /\ dtorPc = "returned"

\* C11: in CONTENT_TYPE mode no byte is ever written to a sink, whether or
\* not the caller passed a writer and whatever body the transport delivers.
C11_MetadataOnlyWritesNothing ==
    fetchOption = "CONTENT_TYPE" =>
        /\ sinkData = <<>>
        /\ m_streamWriter = "null"
        /\ bgPc \notin {"bodyEntry", "bodyLoop", "bodyWrite"}

\* The caller passed a writer, body bytes reached the write callback and
\* the task has ended.
C11_Witness ==
    /\ fetchOption = "CONTENT_TYPE"
    /\ writerArg = "caller"
    /\ bodyOff > 0
    /\ bgPc = "terminated"
    /\ sinkData = <<>>

\* A step of the body callback's write, seen from outside: only BodyWrite
\* moves the task away from "bodyWrite".
WriteStep == bgPc = "bodyWrite" /\ bgPc' # "bodyWrite"

\* The delivery in progress, or the one that returned last.
InDelivery == fetchOption = "ENTIRE_BODY" /\ targetNumBytes > 0

\* C12: in a delivery of n bytes with the fetch never Done and the sink
\* answering only OK or TIMEDOUT, a timed-out write consumes nothing and
\* leaves the delivery running, every attempt offers exactly the bytes not yet
\* written, and the delivery returns n, and only once the sink holds all n.
C12_TimeoutRetriesRemainder ==
    /\ [](InDelivery /\ ~m_done /\ ~sinkFault =>
            /\ data = totalBytesWritten
            /\ totalBytesWritten <= targetNumBytes
            /\ Len(sinkData) >= totalBytesWritten
            /\ SubSeq(sinkData, Len(sinkData) - totalBytesWritten + 1,
                      Len(sinkData))
                 = SubSeq(Body, ChunkStart + 1, ChunkStart + totalBytesWritten)
            /\ bodyReturn # -1 =>
                   /\ bodyReturn = targetNumBytes
                   /\ totalBytesWritten = targetNumBytes)
    /\ [][/\ WriteStep /\ writeStatus' = "TIMEDOUT" =>
               /\ totalBytesWritten' = totalBytesWritten
               /\ data' = data
               /\ sinkData' = sinkData
               /\ bgPc' = "bodyLoop"
               /\ bodyReturn' = -1
          /\ (bgPc = "bodyLoop" /\ bgPc' # "bodyLoop" /\ ~m_done
                 /\ totalBytesWritten < targetNumBytes) =>
                 bgPc' = "bodyWrite"]_vars

\* The first delivery returned all its bytes after a timeout and a partial
\* write.
C12_Witness ==
    /\ fetchOption = "ENTIRE_BODY"
    /\ bgPc = "perform"
    /\ targetNumBytes >= 2
    /\ targetNumBytes = bodyOff
    /\ bodyReturn = targetNumBytes
    /\ timedOutSeen /\ partialSeen
    /\ ~m_done /\ ~sinkFault

\* The statuses on which bodyCallback returns the running total.
FatalWriteStatuses ==
    {"CLOSED", "ERROR_BYTES_LESS_THAN_WORD_SIZE", "ERROR_INTERNAL"}

\* C13: a write that reports CLOSED, ERROR_BYTES_LESS_THAN_WORD_SIZE or
\* ERROR_INTERNAL is the delivery's last write attempt, and the delivery
\* returns the bytes it has written so far, fewer than the n it was given.
C13_FatalStatusReturnsWritten ==
    /\ [](InDelivery /\ writeStatus \in FatalWriteStatuses =>
            /\ bgPc \notin {"bodyEntry", "bodyLoop", "bodyWrite"}
            /\ bodyReturn = totalBytesWritten
            /\ bodyReturn < targetNumBytes)
    /\ [][WriteStep /\ writeStatus' \in FatalWriteStatuses =>
               /\ bgPc' = "perform"
               /\ bodyReturn' = totalBytesWritten'
               /\ aborted']_vars

\* The sink reported CLOSED after it had taken one byte of the delivery.
C13_Witness ==
    /\ fetchOption = "ENTIRE_BODY"
    /\ writeStatus = "CLOSED"
    /\ targetNumBytes >= 2
    /\ totalBytesWritten = 1
    /\ bodyReturn = 1
    /\ bgPc = "perform"

\* C14: a write that reports OK_BUFFER_FULL or a value outside the
\* enumeration is the delivery's last write attempt, and the delivery returns
\* 0 whatever its earlier attempts wrote.
C14_UnexpectedStatusReturnsZero ==
    /\ [](InDelivery /\ writeStatus \in {"OK_BUFFER_FULL", "UNRECOGNIZED"} =>
            /\ bgPc \notin {"bodyEntry", "bodyLoop", "bodyWrite"}
            /\ bodyReturn = 0)
    /\ [][WriteStep /\ writeStatus' \in {"OK_BUFFER_FULL", "UNRECOGNIZED"} =>
               /\ bgPc' = "perform"
               /\ bodyReturn' = 0
               /\ aborted']_vars

\* OK_BUFFER_FULL came after the delivery had already written bytes.
C14_Witness ==
    /\ fetchOption = "ENTIRE_BODY"
    /\ writeStatus = "OK_BUFFER_FULL"
    /\ totalBytesWritten >= 2
    /\ partialSeen
    /\ bodyReturn = 0
    /\ bgPc = "perform"

\* A response code that is nonzero and outside 300..308.
NonRedirectCode(code) == code # 0 /\ (code < 300 \/ code > 308)

\* The string the CONTENT_TYPE task hands to the content-type promise.
QueriedContentType == IF contentType = NullPtr THEN <<>> ELSE contentType

\* C15: in CONTENT_TYPE mode, from the iteration that reads a nonzero
\* non-redirect response code on, the transfer is not performed or waited on
\* again, the content type is the one queried in that iteration, and the
\* promises get that code and that content type.
C15_FinalCodeStopsLoop ==
    /\ [](fetchOption = "CONTENT_TYPE" /\ NonRedirectCode(finalResponseCode) =>
            /\ bgPc \in {"setStatus", "setContentType", "removeHandle",
                          "terminated"}
            /\ finalResponseCode = curlResponseCode
            /\ contentType \in {curlContentType, NullPtr}
            /\ statusCodePromise.writes > 0 =>
                   statusCodePromise.value = finalResponseCode
            /\ contentTypePromise.writes > 0 =>
                   contentTypePromise.value = QueriedContentType
            /\ bgPc \in {"removeHandle", "terminated"} => Fulfilled)
    /\ [][fetchOption = "CONTENT_TYPE" /\ NonRedirectCode(finalResponseCode) =>
               UNCHANGED <<hdrIdx, bodyOff, aborted, numTransfersLeft,
                           curlResponseCode, curlContentType,
                           finalResponseCode, contentType>>]_vars

\* The task stopped on the 200 of the first response before any body byte
\* was delivered, and both promises hold what it read.
C15_Witness ==
    /\ fetchOption = "CONTENT_TYPE"
    /\ finalResponseCode = 200
    /\ bodyOff = 0
    /\ ~aborted
    /\ bgPc = "terminated"
    /\ statusCodePromise.value = 200
    /\ contentTypePromise.value = curlContentType
    /\ contentTypePromise.value # <<>>

\* The CONTENT_TYPE task left its loop and set the status promise without
\* having read a nonzero non-redirect response code.
LoopExitedUnresolved ==
    /\ fetchOption = "CONTENT_TYPE"
    /\ taskFailure # "create"
    /\ ~NonRedirectCode(finalResponseCode)
    /\ Fulfilled

\* C16 as stated: a CONTENT_TYPE loop that ends without a nonzero non-redirect
\* response code fulfils the status promise with 0 and the content-type
\* promise with the empty string.
C16_UnresolvedGivesZero ==
    LoopExitedUnresolved =>
        /\ statusCodePromise.value = 0
        /\ contentTypePromise.value = <<>>

\* C16 amended: such a loop fulfils the status promise with the response code
\* it read last, which is 0 or a redirect code in 300..308, and the
\* content-type promise with the empty string.
C16_UnresolvedGivesLastCode ==
    LoopExitedUnresolved =>
        /\ statusCodePromise.value = finalResponseCode
        /\ statusCodePromise.value \in {0} \cup (300..308)
        /\ contentTypePromise.value = <<>>

\* The loop ended on a failed wait() after the task had read the 301 and
\* libcurl had received its content-type header.
C16_Witness ==
    /\ LoopExitedUnresolved
    /\ taskFailure = "wait"
    /\ statusCodePromise.value = 301
    /\ curlContentType # NullPtr
    /\ bgPc = "terminated"

\* ---- what a sequence of header lines says, read by the rules of HTTP
\* A status line opens with the protocol version.
IsStatusLine(line) == StartsWith(ToLower(line), HttpPrefix \o <<"/">>)

\* The status code is the number after the version.
StatusCodeOf(line) == ReadLong(line, FindChar(line, " ", 1))

\* A content-type header is a line whose field name, the text before the
\* colon, is content-type in any case.
IsContentTypeHeader(line) ==
    LET colon == FindChar(line, ":", 1)
    IN  colon # 0 /\ ToLower(SubSeq(line, 1, colon - 1)) = ContentTypePrefix

\* Its value, lower-cased and cut at the first ';'.
ContentTypeValue(line) ==
    LET value == ToLower(FieldValue(line))
        semi  == FindChar(value, ";", 1)
    IN  IF semi = 0 THEN value ELSE SubSeq(value, 1, semi - 1)

\* Index of the last status line among the first k header lines, 0 if none.
RECURSIVE LastStatusLineIndex(_)
LastStatusLineIndex(k) ==
    IF k = 0 THEN 0
    ELSE IF IsStatusLine(Headers[k]) THEN k ELSE LastStatusLineIndex(k - 1)

\* Index of the last content-type header among the first k lines, 0 if none.
RECURSIVE LastContentTypeIndex(_)
LastContentTypeIndex(k) ==
    IF k = 0 THEN 0
    ELSE IF IsContentTypeHeader(Headers[k]) THEN k
    ELSE LastContentTypeIndex(k - 1)

LastStatusCodeSeen(k) ==
    IF LastStatusLineIndex(k) = 0 THEN 0
    ELSE StatusCodeOf(Headers[LastStatusLineIndex(k)])

LastContentTypeSeen(k) ==
    IF LastContentTypeIndex(k) = 0 THEN <<>>
    ELSE ContentTypeValue(Headers[LastContentTypeIndex(k)])

\* The ENTIRE_BODY task left its loop and set both promises.
FullBodyResolved ==
    /\ fetchOption = "ENTIRE_BODY"
    /\ taskFailure # "create"
    /\ Fulfilled

\* C17: in ENTIRE_BODY mode the status promise gets the code of the last
\* status line received (0 if none) and the content-type promise the value of
\* the last content-type header received, lower-cased and cut at the first
\* ';' (empty if none).
C17_LastSeenHeadersResolve ==
    FullBodyResolved =>
        /\ statusCodePromise.value = LastStatusCodeSeen(hdrIdx)
        /\ contentTypePromise.value = LastContentTypeSeen(hdrIdx)

\* C20: in ENTIRE_BODY mode the content type resolved belongs to the response
\* of the status code resolved: when an earlier response carried a
\* content-type header and the last response received carries none, the
\* content-type promise does not get the earlier response's content type.
C20_ContentTypeOfSameResponse ==
    LET last == LastStatusLineIndex(hdrIdx)
    IN  (/\ FullBodyResolved
         /\ last > 1
         /\ LastContentTypeIndex(hdrIdx) # 0
         /\ LastContentTypeIndex(hdrIdx) < last) =>
            contentTypePromise.value # LastContentTypeSeen(last - 1)

\* C18: in ENTIRE_BODY mode a locally created writer is closed only after both
\* promises are set, and the task sets m_done only after that close; whoever
\* finds the local writer closed finds both promises set.
C18_CloseAfterPromisesThenDone ==
    /\ [](fetchOption = "ENTIRE_BODY" /\ sinkClosed =>
            writerWasCreatedLocally /\ Fulfilled)
    /\ [][/\ (fetchOption = "ENTIRE_BODY" /\ ~sinkClosed /\ sinkClosed') =>
                 Fulfilled /\ writerWasCreatedLocally
          /\ (bgPc = "setDone" /\ bgPc' # "setDone") =>
                 /\ m_done'
                 /\ Fulfilled
                 /\ writerWasCreatedLocally => sinkClosed]_vars

\* The task closed its own writer and was the one to set m_done.
C18_Witness ==
    /\ fetchOption = "ENTIRE_BODY"
    /\ writerWasCreatedLocally
    /\ sinkClosed
    /\ Fulfilled
    /\ doneSetBy = "task"
    /\ bgPc = "terminated"

\* The ENTIRE_BODY task is inside its driver loop, the body callback included.
DriverLoopRunning ==
    /\ fetchOption = "ENTIRE_BODY"
    /\ bgPc \in {"loop", "perform", "wait", "bodyEntry", "bodyLoop",
                  "bodyWrite"}

\* C19: in ENTIRE_BODY mode no promise is set while the driver loop runs, and
\* with the fetcher not shut down a write that times out sends the task back
\* to write again, inside the loop: with a sink that always times out the
\* promises stay unset although the headers have been received.
C19_PendingWhileLoopRuns ==
    /\ [](DriverLoopRunning =>
            statusCodePromise.writes = 0 /\ contentTypePromise.writes = 0)
    /\ [][(DriverLoopRunning /\ ~m_done' /\ totalBytesWritten < targetNumBytes
             /\ bgPc \in {"bodyLoop", "bodyWrite"} /\ bgPc' # bgPc
             /\ writeStatus' = "TIMEDOUT") =>
               /\ bgPc' \in {"bodyLoop", "bodyWrite"}
               /\ totalBytesWritten' = totalBytesWritten
               /\ ~Fulfilled']_vars

\* All headers were received, the destructor has not been called, the last
\* write timed out and the task is about to write again, no promise set.
C19_Witness ==
    /\ DriverLoopRunning
    /\ hdrIdx = Len(Headers)
    /\ m_lastStatusCode = 200
    /\ dtorPc = "alive"
    /\ writeStatus = "TIMEDOUT"
    /\ bgPc = "bodyWrite"
    /\ ~Fulfilled

====
